---- MODULE Spec2Model ----
(***************************************************************************)
(* The HTML sanitizer of src/content/sanitizer/sanitizer.go as a state     *)
(* machine over a token stream.                                            *)
(*                                                                         *)
(* Strings are sequences of lexical atoms: an atom is one character that   *)
(* matters to the sanitizer ("<", ">", "&", a quote, ":", " ") or a run of *)
(* characters none of its string operations looks inside ("https",         *)
(* "www.youtube.com", "/x", "script").  Prefix, split, contains and escape *)
(* are computed on these sequences the way the code computes them on       *)
(* bytes.                                                                  *)
(***************************************************************************)
EXTENDS Integers, Sequences, FiniteSets, TLC

(* ----------------------------- bounds ---------------------------------- *)

\* Number of tokens the tokenizer hands out before it must stop.
MaxTokens == 3

(* ------------------------- string helpers ------------------------------ *)

\* strings.HasPrefix
HasPrefix(s, p) ==
    /\ Len(p) <= Len(s)
    /\ SubSeq(s, 1, Len(p)) = p

\* strings.Contains
Contains(s, sub) ==
    \E i \in 1..(Len(s) + 1) :
        /\ i + Len(sub) - 1 <= Len(s)
        /\ SubSeq(s, i, i + Len(sub) - 1) = sub

\* Index of the first occurrence of atom c in s, 0 when there is none.
IndexOf(s, c) ==
    IF \E i \in 1..Len(s) : s[i] = c
    THEN CHOOSE i \in 1..Len(s) : s[i] = c /\ \A j \in 1..(i - 1) : s[j] # c
    ELSE 0

\* strings.Join(list, sep) for a list of atom sequences.
RECURSIVE Join(_, _)
Join(list, sep) ==
    IF Len(list) = 0 THEN <<>>
    ELSE IF Len(list) = 1 THEN list[1]
    ELSE list[1] \o sep \o Join(Tail(list), sep)

\* strings.Split(s, sep) for a one-atom separator: always at least one part.
RECURSIVE SplitOn(_, _)
SplitOn(s, sep) ==
    LET i == IndexOf(s, sep) IN
    IF i = 0 THEN <<s>>
    ELSE <<SubSeq(s, 1, i - 1)>> \o SplitOn(SubSeq(s, i + 1, Len(s)), sep)

\* strings.TrimSpace
RECURSIVE TrimSpace(_)
TrimSpace(s) ==
    IF Len(s) > 0 /\ s[1] = " " THEN TrimSpace(Tail(s))
    ELSE IF Len(s) > 0 /\ s[Len(s)] = " " THEN TrimSpace(SubSeq(s, 1, Len(s) - 1))
    ELSE s

\* html.EscapeString on one atom: the five characters it replaces.
EscapeAtom(c) ==
    CASE c = "<"  -> "&lt;"
      [] c = ">"  -> "&gt;"
      [] c = "&"  -> "&amp;"
      [] c = "'"  -> "&#39;"
      [] c = "\"" -> "&#34;"
      [] OTHER    -> c

\* html.EscapeString
EscapeString(s) == [i \in 1..Len(s) |-> EscapeAtom(s[i])]

\* html.UnescapeString on one atom, as the tokenizer applies it to text and
\* attribute values.
UnescapeAtom(c) ==
    CASE c = "&lt;"  -> "<"
      [] c = "&gt;"  -> ">"
      [] c = "&amp;" -> "&"
      [] c = "&#39;" -> "'"
      [] c = "&#34;" -> "\""
      [] OTHER       -> c

UnescapeString(s) == [i \in 1..Len(s) |-> UnescapeAtom(s[i])]

(* ----------------------- allowlist tables ------------------------------- *)

\* The HTML tag table: the tags the sanitizer keeps.
allowedTags ==
    {"img", "picture", "audio", "video", "source", "td", "th", "strong", "em",
     "p", "q", "ul", "li", "br", "a", "time", "abbr", "iframe"}

\* The per-tag attribute table (the tags with a non-empty attribute set).
allowedAttrs ==
    [t \in {"img", "audio", "video", "source", "td", "th", "q", "a", "time",
            "abbr", "iframe"} |->
        CASE t = "img"    -> {"alt", "title", "src", "srcset", "sizes"}
          [] t = "audio"  -> {"src"}
          [] t = "video"  -> {"poster", "height", "width", "src"}
          [] t = "source" -> {"src", "type", "srcset", "sizes", "media"}
          [] t = "td"     -> {"rowspan", "colspan"}
          [] t = "th"     -> {"rowspan", "colspan"}
          [] t = "q"      -> {"cite"}
          [] t = "a"      -> {"href", "title"}
          [] t = "time"   -> {"datetime"}
          [] t = "abbr"   -> {"title"}
          [] t = "iframe" -> {"width", "height", "frameborder", "src",
                              "allowfullscreen"}]

\* The SVG tag table, its filter-primitive table and the one attribute set
\* all SVG tags share.
allowedSvgTags == {"svg", "circle", "g", "path", "image"}

allowedSvgFilters == {"feblend", "feflood"}

allowedSvgAttrs == {"cx", "cy", "r", "fill", "href", "width", "height"}

\* The URI scheme allowlist.
allowedURISchemes == {"http", "https", "mailto", "ftp"}

(* ------------------------------ URLs ----------------------------------- *)

\* Atoms that read as a URL scheme when a ":" follows them.
SchemeAtoms == {"http", "https", "mailto", "ftp", "javascript", "data"}

\* net/url Parse as htmlutil uses it: ok is FALSE for a string url.Parse
\* rejects (here: one holding the invalid escape "%zz"); scheme and host are
\* "" when absent; path is what follows them.
ParseURL(s) ==
    IF \E i \in 1..Len(s) : s[i] = "%zz"
    THEN [ok |-> FALSE, scheme |-> "", host |-> "", path |-> <<>>]
    ELSE
      LET hasScheme == Len(s) >= 2 /\ s[1] \in SchemeAtoms /\ s[2] = ":"
          rest      == IF hasScheme THEN SubSeq(s, 3, Len(s)) ELSE s
          hasHost   == Len(rest) >= 2 /\ rest[1] = "//"
      IN [ok     |-> TRUE,
          scheme |-> IF hasScheme THEN s[1] ELSE "",
          host   |-> IF hasHost THEN rest[2] ELSE "",
          path   |-> IF hasHost THEN SubSeq(rest, 3, Len(rest)) ELSE rest]

\* URL.String(): scheme ":" "//" host path, each part only when present.
BuildURL(u) ==
    (IF u.scheme # "" THEN <<u.scheme, ":">> ELSE <<>>)
    \o (IF u.host # "" THEN <<"//", u.host>> ELSE <<>>)
    \o u.path

\* URL.ResolveReference for a reference without a scheme.
ResolveReference(b, r) ==
    IF r.host # ""
    THEN [ok |-> TRUE, scheme |-> b.scheme, host |-> r.host, path |-> r.path]
    ELSE [ok |-> TRUE, scheme |-> b.scheme, host |-> b.host,
          path |-> IF r.path = <<>> THEN b.path ELSE r.path]

\* htmlutil.AbsoluteUrl: "" (the empty sequence) when either URL does not
\* parse, the reference itself when it is absolute, else the resolved URL.
AbsoluteUrl(href, base) ==
    LET h == ParseURL(href)
        b == ParseURL(base)
    IN IF ~h.ok THEN <<>>
       ELSE IF h.scheme # "" THEN href
       ELSE IF ~b.ok THEN <<>>
       ELSE BuildURL(ResolveReference(b, h))

\* htmlutil.URLDomain: the host of the URL, the string itself when it does
\* not parse.
URLDomain(val) ==
    LET u == ParseURL(val)
    IN IF ~u.ok THEN val
       ELSE IF u.host = "" THEN <<>> ELSE <<u.host>>

(* ------------------------ structural policy ---------------------------- *)

isValidTag(tagName) ==
    \/ tagName \in allowedTags
    \/ tagName \in allowedSvgTags
    \/ tagName \in allowedSvgFilters

isBlockedTag(tagName) == tagName \in {"noscript", "script", "style"}

\* Every attribute name passes.
isValidAttribute_any(tagName, attributeName) == TRUE

isValidAttribute(tagName, attributeName) ==
    IF tagName \in DOMAIN allowedAttrs
    THEN attributeName \in allowedAttrs[tagName]
    ELSE IF tagName \in allowedSvgTags
    THEN attributeName \in allowedSvgAttrs
    ELSE FALSE

isExternalResourceAttribute(attribute) ==
    attribute \in {"src", "href", "poster", "cite"}

\* The required-attribute table of hasRequiredAttributes.
requiredAttributes ==
    [t \in {"a", "iframe", "img", "source"} |->
        CASE t = "a"      -> {"href"}
          [] t = "iframe" -> {"src"}
          [] t = "img"    -> {"src"}
          [] t = "source" -> {"src", "srcset"}]

\* No tag requires an attribute.
hasRequiredAttributes_none(tagName, attributes) == TRUE

\* attributes is the list of surviving attribute names.
hasRequiredAttributes(tagName, attributes) ==
    IF tagName \in DOMAIN requiredAttributes
    THEN \E i \in 1..Len(attributes) :
            attributes[i] \in requiredAttributes[tagName]
    ELSE TRUE

inList(needle, haystack) ==
    \E i \in 1..Len(haystack) : haystack[i] = needle

(* ------------------------ resource validator --------------------------- *)

\* strings.SplitN(src, ":", 2)[0] is what precedes the first ":".
hasValidURIScheme(src) ==
    LET i      == IndexOf(src, ":")
        scheme == IF i = 0 THEN src ELSE SubSeq(src, 1, i - 1)
    IN Len(scheme) = 1 /\ scheme[1] \in allowedURISchemes

isBlockedResource(src) ==
    \E element \in {<<"feedsportal.com">>,
                    <<"api.flattr.com">>,
                    <<"stats.wordpress.com">>,
                    <<"plus.google.com", "/share">>,
                    <<"twitter.com", "/share">>,
                    <<"feeds.feedburner.com">>} :
        Contains(src, element)

isValidIframeSource(baseURL, src) ==
    LET whitelist == {<<"bandcamp.com">>, <<"cdn.embedly.com">>,
                      <<"invidio.us">>, <<"player.bilibili.com">>,
                      <<"player.vimeo.com">>, <<"soundcloud.com">>,
                      <<"vk.com">>, <<"w.soundcloud.com">>,
                      <<"www.dailymotion.com">>,
                      <<"www.youtube-nocookie.com">>, <<"www.youtube.com">>}
        domain    == URLDomain(src)
    IN \/ URLDomain(baseURL) = domain
       \/ domain \in whitelist

isValidDataAttribute(value) ==
    \E prefix \in {<<"data", ":", "image/avif">>, <<"data", ":", "image/apng">>,
                   <<"data", ":", "image/png">>, <<"data", ":", "image/svg">>,
                   <<"data", ":", "image/svg+xml">>, <<"data", ":", "image/jpg">>,
                   <<"data", ":", "image/jpeg">>, <<"data", ":", "image/gif">>,
                   <<"data", ":", "image/webp">>} :
        HasPrefix(value, prefix)

\* The video-embed domains of isVideoIframe.
videoWhitelist ==
    {<<"player.bilibili.com">>, <<"player.vimeo.com">>, <<"www.dailymotion.com">>,
     <<"www.youtube-nocookie.com">>, <<"www.youtube.com">>}

\* The first src attribute of an iframe token decides.
isVideoIframe(token) ==
    LET srcs == {i \in 1..Len(token.Attr) : token.Attr[i].Key = "src"}
    IN /\ token.Data = "iframe"
       /\ srcs # {}
       /\ LET first == CHOOSE i \in srcs : \A j \in srcs : i <= j
          IN URLDomain(token.Attr[first].Val) \in videoWhitelist

(* -------------------------- srcset rewriting --------------------------- *)

\* Atoms strconv.ParseFloat accepts as a whole number string.
FloatAtoms == {"1", "2", "1.5", "inf"}

\* The last character is w or x and what precedes it parses as a float.
isValidWidthOrDensityDescriptor(value) ==
    /\ value # <<>>
    /\ value[Len(value)] \in {"w", "x"}
    /\ Len(value) = 2
    /\ value[1] \in FloatAtoms

\* One raw candidate, dropped as a whole when its descriptor is not valid.
sanitizeSrcsetSource_strict(baseURL, rawSource) ==
    LET parts   == SplitOn(TrimSpace(rawSource), " ")
        nbParts == Len(parts)
        url     == IF HasPrefix(parts[1], <<"data", ":">>)
                   THEN parts[1]
                   ELSE AbsoluteUrl(parts[1], baseURL)
    IN IF ~HasPrefix(parts[1], <<"data", ":">>) /\ url = <<>>
       THEN <<>>
       ELSE IF nbParts = 2 /\ isValidWidthOrDensityDescriptor(parts[2])
       THEN <<url \o <<" ">> \o parts[2]>>
       ELSE IF nbParts = 1 THEN <<url>>
       ELSE <<>>

\* One raw candidate of a srcset: <<>> when it is dropped, else a one-element
\* list holding the rewritten candidate.
sanitizeSrcsetSource(baseURL, rawSource) ==
    LET parts   == SplitOn(TrimSpace(rawSource), " ")
        nbParts == Len(parts)
        url     == IF HasPrefix(parts[1], <<"data", ":">>)
                   THEN parts[1]
                   ELSE AbsoluteUrl(parts[1], baseURL)
    IN IF ~HasPrefix(parts[1], <<"data", ":">>) /\ url = <<>>
       THEN <<>>
       ELSE IF nbParts = 2 /\ isValidWidthOrDensityDescriptor(parts[2])
       THEN <<url \o <<" ">> \o parts[2]>>
       ELSE <<url>>

RECURSIVE sanitizeSrcsetSources(_, _)
sanitizeSrcsetSources(baseURL, rawSources) ==
    IF rawSources = <<>> THEN <<>>
    ELSE sanitizeSrcsetSource(baseURL, Head(rawSources))
         \o sanitizeSrcsetSources(baseURL, Tail(rawSources))

\* The atom ", " is a comma followed by whitespace, where the regular
\* expression splits.
sanitizeSrcsetAttr(baseURL, value) ==
    Join(sanitizeSrcsetSources(baseURL, SplitOn(value, ", ")), <<", ">>)

(* ------------------------- attribute policy ---------------------------- *)

\* An output attribute: bare is TRUE for one written without a value.
\* fmt.Sprintf(`%s="%s"`, attribute.Key, html.EscapeString(value))
htmlAttr(key, value) ==
    [Key |-> key, Val |-> EscapeString(value), bare |-> FALSE]

\* The literal attributes of the defensive table.
literalAttr(key, value) == [Key |-> key, Val |-> value, bare |-> FALSE]

getExtraAttributes(tagName) ==
    CASE tagName = "a" ->
           <<literalAttr("rel", <<"noopener", " ", "noreferrer">>),
             literalAttr("target", <<"_blank">>),
             literalAttr("referrerpolicy", <<"no-referrer">>)>>
      [] tagName \in {"video", "audio"} ->
           <<[Key |-> "controls", Val |-> <<>>, bare |-> TRUE]>>
      [] tagName = "iframe" ->
           <<literalAttr("sandbox", <<"allow-scripts", " ", "allow-same-origin",
                                      " ", "allow-popups">>),
             literalAttr("loading", <<"lazy">>)>>
      [] tagName = "img" ->
           <<literalAttr("loading", <<"lazy">>)>>
      [] OTHER -> <<>>

\* The body of the loop over the source attributes: <<>> when the attribute
\* is skipped, else a one-element list holding the output attribute.
sanitizeAttribute(baseURL, tagName, attribute) ==
    LET srcsetValue ==
            IF tagName \in {"img", "source"} /\ attribute.Key = "srcset"
            THEN sanitizeSrcsetAttr(baseURL, attribute.Val)
            ELSE attribute.Val
        resolved == AbsoluteUrl(srcsetValue, baseURL)
    IN IF ~isValidAttribute(tagName, attribute.Key) THEN <<>>
       ELSE IF ~isExternalResourceAttribute(attribute.Key)
       THEN <<htmlAttr(attribute.Key, srcsetValue)>>
       ELSE IF tagName = "iframe"
       THEN IF isValidIframeSource(baseURL, attribute.Val)
            THEN <<htmlAttr(attribute.Key, attribute.Val)>>
            ELSE <<>>
       ELSE IF /\ tagName = "img"
               /\ attribute.Key = "src"
               /\ isValidDataAttribute(attribute.Val)
       THEN <<htmlAttr(attribute.Key, attribute.Val)>>
       ELSE IF resolved = <<>> THEN <<>>
       ELSE IF ~hasValidURIScheme(resolved) \/ isBlockedResource(resolved)
       THEN <<>>
       ELSE <<htmlAttr(attribute.Key, resolved)>>

RECURSIVE sanitizeSourceAttributes(_, _, _)
sanitizeSourceAttributes(baseURL, tagName, attributes) ==
    IF attributes = <<>> THEN <<>>
    ELSE sanitizeAttribute(baseURL, tagName, Head(attributes))
         \o sanitizeSourceAttributes(baseURL, tagName, Tail(attributes))

\* The extra attributes put before the source attributes.
sanitizeAttributes_extraFirst(baseURL, tagName, attributes) ==
    getExtraAttributes(tagName)
    \o sanitizeSourceAttributes(baseURL, tagName, attributes)

\* The surviving source attributes in source order, then the extra ones.
\* attrNames and htmlAttrs of the code are the keys and the entries of this
\* one list.
sanitizeAttributes(baseURL, tagName, attributes) ==
    sanitizeSourceAttributes(baseURL, tagName, attributes)
    \o getExtraAttributes(tagName)

AttrNames(attrs) == [i \in 1..Len(attrs) |-> attrs[i].Key]

(* --------------------------- output buffer ----------------------------- *)

\* The buffer is the list of the pieces written, one per tag or text run.
TextChunk(data) ==
    [k |-> "text", name |-> "", attrs |-> <<>>, data |-> data]

\* "<" + tagName + " " + htmlAttributes + ">", or "<" + tagName + ">"
OpenChunk(tagName, attrs) ==
    [k |-> "open", name |-> tagName, attrs |-> attrs, data |-> <<>>]

\* "<" + tagName + " " + htmlAttributes + "/>", or "<" + tagName + "/>"
SelfChunk(tagName, attrs) ==
    [k |-> "self", name |-> tagName, attrs |-> attrs, data |-> <<>>]

\* "</" + tagName + ">"
CloseChunk(tagName) ==
    [k |-> "close", name |-> tagName, attrs |-> <<>>, data |-> <<>>]

\* `<div class="video-wrapper">` and `</div>`
WrapperOpen ==
    OpenChunk("div", <<literalAttr("class", <<"video-wrapper">>)>>)

WrapperClose == CloseChunk("div")

\* The characters of one output attribute.
RenderAttr(a) ==
    IF a.bare THEN <<a.Key>>
    ELSE <<a.Key, "=", "\"">> \o a.Val \o <<"\"">>

RenderAttrs(attrs) ==
    Join([i \in 1..Len(attrs) |-> RenderAttr(attrs[i])], <<" ">>)

\* The characters of one piece of the buffer.
RenderChunk(c) ==
    CASE c.k = "text"  -> c.data
      [] c.k = "close" -> <<"</", c.name, ">">>
      [] c.k = "open"  ->
           IF Len(c.attrs) > 0
           THEN <<"<", c.name, " ">> \o RenderAttrs(c.attrs) \o <<">">>
           ELSE <<"<", c.name, ">">>
      [] c.k = "self"  ->
           IF Len(c.attrs) > 0
           THEN <<"<", c.name, " ">> \o RenderAttrs(c.attrs) \o <<"/>">>
           ELSE <<"<", c.name, "/>">>

\* buffer.String()
RECURSIVE Render(_)
Render(buf) ==
    IF buf = <<>> THEN <<>> ELSE RenderChunk(Head(buf)) \o Render(Tail(buf))

(* --------------------------- token dispatcher -------------------------- *)

\* The per-call state of Sanitize: the output buffer and the three pieces of
\* cross-token state.
InitialState ==
    [buffer |-> <<>>, tagStack |-> <<>>, parentTag |-> "",
     blacklistedTagDepth |-> 0]

\* A text token written as it is, without html.EscapeString.
TextOutput_unescaped(token) == TextChunk(token.Text)

\* What a text token writes: html.EscapeString(token.Data).
TextOutput(token) == TextChunk(EscapeString(token.Text))

\* case html.TextToken
TextTokenStep(st, token) ==
    IF st.blacklistedTagDepth > 0 THEN st
    ELSE IF st.parentTag = "iframe" THEN st
    ELSE [st EXCEPT !.buffer = Append(@, TextOutput(token))]

\* The iframe left open like any other tag.
StartTagOutput_noAutoClose(token, attrs) ==
    (IF isVideoIframe(token) THEN <<WrapperOpen>> ELSE <<>>)
    \o <<OpenChunk(token.Data, attrs)>>
    \o (IF isVideoIframe(token) THEN <<WrapperClose>> ELSE <<>>)

\* What a kept start tag writes, the iframe auto-closed and wrapped.
StartTagOutput(token, attrs) ==
    LET wrap == isVideoIframe(token)
    IN (IF wrap THEN <<WrapperOpen>> ELSE <<>>)
       \o <<OpenChunk(token.Data, attrs)>>
       \o (IF token.Data = "iframe"
           THEN <<CloseChunk("iframe")>>
                \o (IF wrap THEN <<WrapperClose>> ELSE <<>>)
           ELSE <<>>)

\* The start-tag case pushing the name of every allowed tag, kept or not.
StartTagTokenStep_pushDropped(baseURL, st, token) ==
    LET tagName == token.Data
        attrs   == sanitizeAttributes(baseURL, tagName, token.Attr)
        st1     == [st EXCEPT !.parentTag = tagName]
    IN IF isValidTag(tagName)
       THEN IF hasRequiredAttributes(tagName, AttrNames(attrs))
            THEN [st1 EXCEPT
                    !.buffer   = @ \o StartTagOutput(token, attrs),
                    !.tagStack = IF tagName = "iframe" THEN @
                                 ELSE Append(@, tagName)]
            ELSE [st1 EXCEPT !.tagStack = Append(@, tagName)]
       ELSE IF isBlockedTag(tagName)
       THEN [st1 EXCEPT !.blacklistedTagDepth = @ + 1]
       ELSE st1

\* case html.StartTagToken
StartTagTokenStep(baseURL, st, token) ==
    LET tagName == token.Data
        attrs   == sanitizeAttributes(baseURL, tagName, token.Attr)
        st1     == [st EXCEPT !.parentTag = tagName]
    IN IF isValidTag(tagName)
       THEN IF hasRequiredAttributes(tagName, AttrNames(attrs))
            THEN [st1 EXCEPT
                    !.buffer   = @ \o StartTagOutput(token, attrs),
                    !.tagStack = IF tagName = "iframe" THEN @
                                 ELSE Append(@, tagName)]
            ELSE st1
       ELSE IF isBlockedTag(tagName)
       THEN [st1 EXCEPT !.blacklistedTagDepth = @ + 1]
       ELSE st1

\* The end-tag case without the look-up in the open-tag stack.
EndTagTokenStep_noStack(st, token) ==
    LET tagName == token.Data
    IN IF tagName = "iframe" THEN st
       ELSE IF isValidTag(tagName)
       THEN [st EXCEPT !.buffer = Append(@, CloseChunk(tagName))]
       ELSE IF isBlockedTag(tagName)
       THEN [st EXCEPT !.blacklistedTagDepth = @ - 1]
       ELSE st

\* case html.EndTagToken
EndTagTokenStep(st, token) ==
    LET tagName == token.Data
    IN IF tagName = "iframe" THEN st
       ELSE IF isValidTag(tagName) /\ inList(tagName, st.tagStack)
       THEN [st EXCEPT !.buffer = Append(@, CloseChunk(tagName))]
       ELSE IF isBlockedTag(tagName)
       THEN [st EXCEPT !.blacklistedTagDepth = @ - 1]
       ELSE st

\* The self-closing case pushing the name like the start-tag case.
SelfClosingTagTokenStep_push(baseURL, st, token) ==
    LET tagName == token.Data
        attrs   == sanitizeAttributes(baseURL, tagName, token.Attr)
    IN IF isValidTag(tagName) /\ hasRequiredAttributes(tagName, AttrNames(attrs))
       THEN [st EXCEPT !.buffer = Append(@, SelfChunk(tagName, attrs)),
                       !.tagStack = Append(@, tagName)]
       ELSE st

\* case html.SelfClosingTagToken
SelfClosingTagTokenStep(baseURL, st, token) ==
    LET tagName == token.Data
        attrs   == sanitizeAttributes(baseURL, tagName, token.Attr)
    IN IF isValidTag(tagName) /\ hasRequiredAttributes(tagName, AttrNames(attrs))
       THEN [st EXCEPT !.buffer = Append(@, SelfChunk(tagName, attrs))]
       ELSE st

\* switch token.Type
ProcessToken(baseURL, st, token) ==
    CASE token.Type = "Text"           -> TextTokenStep(st, token)
      [] token.Type = "StartTag"       -> StartTagTokenStep(baseURL, st, token)
      [] token.Type = "EndTag"         -> EndTagTokenStep(st, token)
      [] token.Type = "SelfClosingTag" -> SelfClosingTagTokenStep(baseURL, st, token)

\* The loop of Sanitize over a whole token list that ends in io.EOF.
RECURSIVE SanitizeFrom(_, _, _)
SanitizeFrom(baseURL, st, tokens) ==
    IF tokens = <<>> THEN st.buffer
    ELSE SanitizeFrom(baseURL, ProcessToken(baseURL, st, Head(tokens)),
                      Tail(tokens))

Sanitize(baseURL, tokens) == SanitizeFrom(baseURL, InitialState, tokens)

(* ------------------------------ tokenizer ------------------------------ *)

\* html.Token: Data is the tag name of a tag token, Text the (unescaped)
\* text of a text token, Attr the attributes in source order.
TextToken(text) ==
    [Type |-> "Text", Data |-> "", Text |-> text, Attr |-> <<>>]

TagToken(type, name, attr) ==
    [Type |-> type, Data |-> name, Text |-> <<>>, Attr |-> attr]

Attribute(key, val) == [Key |-> key, Val |-> val]

\* The token the tokenizer reads back from one piece of output: entities in
\* text and attribute values are unescaped, a bare attribute has the value "".
TokenOfChunk(c) ==
    LET attr == [i \in 1..Len(c.attrs) |->
                    Attribute(c.attrs[i].Key, UnescapeString(c.attrs[i].Val))]
    IN CASE c.k = "text"  -> TextToken(UnescapeString(c.data))
         [] c.k = "open"  -> TagToken("StartTag", c.name, attr)
         [] c.k = "self"  -> TagToken("SelfClosingTag", c.name, attr)
         [] c.k = "close" -> TagToken("EndTag", c.name, <<>>)

\* html.NewTokenizer over a string Sanitize returned.
Tokenize(buf) == [i \in 1..Len(buf) |-> TokenOfChunk(buf[i])]

(* ------------------------------- inputs -------------------------------- *)

\* Base URLs: none, the feed's site, one that does not parse.
SiteBase == <<"https", ":", "//", "ex.com", "/feed">>

BaseURLs == {<<>>, SiteBase, <<"%zz">>}

\* Attribute values.
RelURL     == <<"/x">>
SiteURL    == <<"https", ":", "//", "ex.com", "/x">>
OtherURL   == <<"https", ":", "//", "evil.com", "/x">>
TrackerURL == <<"https", ":", "//", "feedsportal.com", "/x">>
VideoURL   == <<"https", ":", "//", "www.youtube.com", "/embed">>
AudioURL   == <<"https", ":", "//", "soundcloud.com", "/player">>
ScriptURL  == <<"javascript", ":", "alert(1)">>
ScriptVideoURL == <<"javascript", ":", "//", "www.youtube.com", "/%0Aalert(1)">>
ImageData  == <<"data", ":", "image/png", ";base64,AAAA">>
HtmlData   == <<"data", ":", "text/html", ",", "<", "script", ">">>
Breakout   == <<"\"", ">", "<", "script", ">">>
Srcset     == <<"/a.jpg", " ", "1", "x", ", ", "%zz", ", ", "/b.jpg", " ", "bad">>

\* The attribute lists of the start-tag tokens the tokenizer may hand out,
\* by tag name.
AttrLists ==
    [t \in {"p", "a", "img", "iframe", "video", "source", "circle", "script",
            "font"} |->
        CASE t = "p" -> {<<>>}
          [] t = "a" ->
               {<<Attribute("href", ScriptURL)>>,
                <<Attribute("target", <<"_self">>), Attribute("title", Breakout),
                  Attribute("href", RelURL)>>}
          [] t = "img" ->
               {<<Attribute("src", HtmlData)>>,
                <<Attribute("loading", <<"eager">>), Attribute("src", ImageData),
                  Attribute("alt", Breakout)>>}
          [] t = "iframe" ->
               {<<Attribute("src", VideoURL)>>,
                <<Attribute("width", <<"1">>), Attribute("src", SiteURL),
                  Attribute("sandbox", <<>>)>>,
                <<Attribute("src", ScriptVideoURL)>>,
                <<Attribute("src", OtherURL), Attribute("src", VideoURL)>>}
          [] t = "video" ->
               {<<Attribute("poster", ScriptURL), Attribute("src", TrackerURL),
                  Attribute("controls", <<"0">>), Attribute("poster", OtherURL)>>}
          [] t = "source" -> {<<Attribute("srcset", Srcset)>>}
          [] t = "circle" ->
               {<<Attribute("r", <<"1">>), Attribute("onclick", <<"alert(1)">>)>>}
          [] t = "script" -> {<<>>}
          [] t = "font" -> {<<Attribute("color", <<"red">>)>>}]

\* Start-tag tokens.
StartTagTokens ==
    UNION {{TagToken("StartTag", t, attr) : attr \in AttrLists[t]} :
             t \in DOMAIN AttrLists}

\* Self-closing tokens: tokens of these names closed with "/>", an iframe
\* token only when its first src is a video embed.
SelfClosingTagTokens ==
    {TagToken("SelfClosingTag", token.Data, token.Attr) :
        token \in {x \in StartTagTokens :
                      \/ x.Data \in {"p", "img", "script"}
                      \/ x.Data = "iframe" /\ x.Attr[1].Val = VideoURL}}

\* End-tag tokens.
EndTagTokens ==
    {TagToken("EndTag", t, <<>>) : t \in {"p", "a", "iframe", "script"}}

\* Text tokens.
TextTokens == {TextToken(<<"hi", "<", "script", ">">>)}

(* ---------------------------- state machine --------------------------- *)

VARIABLES
    baseURL,              \* the baseURL argument of the call
    buffer,               \* var buffer bytes.Buffer
    tagStack,             \* var tagStack []string
    parentTag,            \* var parentTag string
    blacklistedTagDepth,  \* blacklistedTagDepth := 0
    pc,                   \* "loop" inside the for loop, "done" once returned
    err,                  \* tokenizer.Err() at the return: "EOF" or "error"
    result,               \* the string Sanitize returned
    consumed,             \* number of tokens read so far
    last,                 \* the token the latest step handled, if any
    before,               \* the buffer as it was before the latest step
    openBlocked,          \* names of the blocked start tags read and not yet
                          \* matched by an end tag of the same name
    calls,                \* the Sanitize calls that run side by side
    srcset,               \* one run of sanitizeSrcsetAttr
    auth                  \* one request through Middleware.Handler

vars == <<baseURL, buffer, tagStack, parentTag, blacklistedTagDepth, pc, err,
          result, consumed, last, before, openBlocked, calls, srcset, auth>>

\* The value of a variable of a part of the program that is not running.
Idle == [pc |-> "idle"]

NoToken == TagToken("None", "", <<>>)

\* The per-call state as the step operators take it.
State ==
    [buffer |-> buffer, tagStack |-> tagStack, parentTag |-> parentTag,
     blacklistedTagDepth |-> blacklistedTagDepth]

\* The names whose subtree is to be suppressed.
BlockedSubtreeSet == {"script", "style", "noscript"}

\* openBlocked after a token: a blocked start tag opens a subtree, an end tag
\* of a name that is open closes it and what is nested in it.
OpenBlockedAfter(open, token) ==
    IF token.Type = "StartTag" /\ token.Data \in BlockedSubtreeSet
    THEN Append(open, token.Data)
    ELSE IF token.Type = "EndTag" /\ inList(token.Data, open)
    THEN LET i == CHOOSE i \in 1..Len(open) :
                    /\ open[i] = token.Data
                    /\ \A j \in (i + 1)..Len(open) : open[j] # token.Data
         IN SubSeq(open, 1, i - 1)
    ELSE open

Init ==
    /\ baseURL \in BaseURLs
    /\ buffer = InitialState.buffer
    /\ tagStack = InitialState.tagStack
    /\ parentTag = InitialState.parentTag
    /\ blacklistedTagDepth = InitialState.blacklistedTagDepth
    /\ pc = "loop"
    /\ err = "none"
    /\ result = <<>>
    /\ consumed = 0
    /\ last = NoToken
    /\ before = <<>>
    /\ openBlocked = <<>>
    /\ calls = Idle
    /\ srcset = Idle
    /\ auth = Idle

\* One turn of the loop on a token: the state the handler leaves.
Handle(token, st) ==
    /\ pc = "loop"
    /\ consumed < MaxTokens
    /\ buffer' = st.buffer
    /\ tagStack' = st.tagStack
    /\ parentTag' = st.parentTag
    /\ blacklistedTagDepth' = st.blacklistedTagDepth
    /\ consumed' = consumed + 1
    /\ last' = token
    /\ before' = buffer
    /\ openBlocked' = OpenBlockedAfter(openBlocked, token)
    /\ UNCHANGED <<baseURL, pc, err, result, calls, srcset, auth>>

OnTextToken ==
    \E token \in TextTokens : Handle(token, TextTokenStep(State, token))

OnStartTagToken ==
    \E token \in StartTagTokens :
        Handle(token, StartTagTokenStep(baseURL, State, token))

OnEndTagToken ==
    \E token \in EndTagTokens : Handle(token, EndTagTokenStep(State, token))

OnSelfClosingTagToken ==
    \E token \in SelfClosingTagTokens :
        Handle(token, SelfClosingTagTokenStep(baseURL, State, token))

\* The buffer returned on every error, io.EOF or not.
ReturnValue_partial(e, buf) == buf

\* What Sanitize returns when the tokenizer stops with error e.
ReturnValue(e, buf) == IF e = "EOF" THEN buf ELSE <<>>

\* tokenizer.Next() == html.ErrorToken with err == io.EOF
OnEOF ==
    /\ pc = "loop"
    /\ pc' = "done"
    /\ err' = "EOF"
    /\ result' = ReturnValue("EOF", buffer)
    /\ last' = NoToken
    /\ before' = buffer
    /\ UNCHANGED <<baseURL, buffer, tagStack, parentTag, blacklistedTagDepth,
                   consumed, openBlocked, calls, srcset, auth>>

\* tokenizer.Next() == html.ErrorToken with another error
OnTokenizerError ==
    /\ pc = "loop"
    /\ pc' = "done"
    /\ err' = "error"
    /\ result' = ReturnValue("error", buffer)
    /\ last' = NoToken
    /\ before' = buffer
    /\ UNCHANGED <<baseURL, buffer, tagStack, parentTag, blacklistedTagDepth,
                   consumed, openBlocked, calls, srcset, auth>>

Next ==
    \/ OnTextToken
    \/ OnStartTagToken
    \/ OnEndTagToken
    \/ OnSelfClosingTagToken
    \/ OnEOF
    \/ OnTokenizerError

Spec == Init /\ [][Next]_vars

(* ------------------------ reading the output --------------------------- *)

\* The pieces the latest step appended to the buffer.
Written == SubSeq(buffer, Len(before) + 1, Len(buffer))

\* The positions of the tags in a buffer.
TagPositions(buf) == {i \in 1..Len(buf) : buf[i].k \in {"open", "self"}}

\* The string contains "<" directly followed by a blocked tag name.
HasBlockedOpening(s) ==
    \E i \in 1..(Len(s) - 1) : s[i] = "<" /\ s[i + 1] \in BlockedSubtreeSet

\* The attribute names a tag may carry from its source: the per-tag table,
\* or the shared SVG set for an SVG tag.
AllowlistOf(tagName) ==
    IF tagName \in DOMAIN allowedAttrs THEN allowedAttrs[tagName]
    ELSE IF tagName \in allowedSvgTags THEN allowedSvgAttrs
    ELSE {}

\* The names the defensive table injects, in its order.
InjectedNames(tagName) ==
    CASE tagName = "a" -> <<"rel", "target", "referrerpolicy">>
      [] tagName \in {"video", "audio"} -> <<"controls">>
      [] tagName = "iframe" -> <<"sandbox", "loading">>
      [] tagName = "img" -> <<"loading">>
      [] OTHER -> <<>>

Range(f) == {f[i] : i \in DOMAIN f}

\* Every attribute name of the tag is allowed for it or injected into it.
AttributeNamesAllowed(c) ==
    \A i \in 1..Len(c.attrs) :
        c.attrs[i].Key \in AllowlistOf(c.name) \cup Range(InjectedNames(c.name))

\* The value an output attribute has once the reader unescapes it.
ValueOf(a) == UnescapeString(a.Val)

\* The value is a URL with an allowlisted scheme, or an allowlisted image
\* data: URL on an img or source tag.
ResourceValueSafe(tagName, value) ==
    \/ /\ ParseURL(value).ok
       /\ ParseURL(value).scheme \in allowedURISchemes
    \/ /\ tagName \in {"img", "source"}
       /\ isValidDataAttribute(value)

(* ------------------------------- claims -------------------------------- *)

\* C1: the output never contains an opening tag named script, style or
\* noscript, neither in the buffer nor in the returned string; a start-tag or
\* self-closing token with one of these names appends nothing.
C1_NoBlockedOpeningTag ==
    /\ ~HasBlockedOpening(Render(IF pc = "done" THEN result ELSE buffer))
    /\ (last.Type \in {"StartTag", "SelfClosingTag"}
        /\ last.Data \in BlockedSubtreeSet) => buffer = before

\* C1 witness: text holding "<script>" and an attribute value that tries to
\* break out of its quotes were written, and a script start tag was read.
C1_Witness ==
    /\ last.Type = "StartTag" /\ last.Data = "script"
    /\ \E i \in 1..Len(buffer) :
          buffer[i].k = "text" /\ Contains(buffer[i].data, <<"&lt;", "script">>)
    /\ \E i \in TagPositions(buffer) : \E j \in 1..Len(buffer[i].attrs) :
          Contains(buffer[i].attrs[j].Val, <<"&lt;", "script">>)

\* C2 (as claimed): every href, src, poster or cite value of every emitted
\* tag, iframe included, has an allowlisted scheme or is an allowlisted image
\* data: URL on img/source.
C2_ResourceValuesSafe ==
    \A i \in TagPositions(buffer) : \A j \in 1..Len(buffer[i].attrs) :
        isExternalResourceAttribute(buffer[i].attrs[j].Key)
            => ResourceValueSafe(buffer[i].name, ValueOf(buffer[i].attrs[j]))

\* C3 (as claimed): every attribute name of every tag in the output, the
\* wrapper container included, is on the allowlist of its tag or is one the
\* defensive table injects into that tag.
C3_AllAttributeNamesAllowed ==
    \A i \in TagPositions(buffer) : AttributeNamesAllowed(buffer[i])

\* C3 (amended): every tag in the output is either the literal wrapper
\* container <div class="video-wrapper">, or carries only attribute names
\* that are on the allowlist of its tag or injected into it.
C3_AttributeNamesAllowedButWrapper ==
    \A i \in TagPositions(buffer) :
        \/ buffer[i] = WrapperOpen
        \/ AttributeNamesAllowed(buffer[i])

\* C3 witness: tokens with disallowed attributes (target on a, onclick on an
\* SVG tag) were emitted without them, and a wrapper was written.
C3_Witness ==
    /\ \E i \in TagPositions(buffer) : buffer[i] = WrapperOpen
    /\ \E i \in TagPositions(buffer) : buffer[i].name = "circle"
    /\ last.Data = "a" /\ Written # <<>>

\* C4 (as claimed): while a blocked subtree is open, no token appends
\* anything to the output.
C4_BlockedSubtreeSilent ==
    [][openBlocked # <<>> => buffer' = buffer]_vars

\* C5: on a tokenizer error other than end-of-stream Sanitize returns the
\* empty string, on end-of-stream exactly the buffer.
C5_FailClosed ==
    pc = "done" =>
        /\ err = "error" => result = <<>>
        /\ err = "EOF" => result = buffer

\* C5 witness: the tokenizer failed after output had been accumulated.
C5_Witness ==
    pc = "done" /\ err = "error" /\ buffer # <<>> /\ result = <<>>


\* C6 (as claimed): sanitizing the tokens of a returned output again, with
\* the same base, returns that output.
C6_Idempotent ==
    (pc = "done" /\ err = "EOF")
        => Sanitize(baseURL, Tokenize(result)) = result

\* The iframe tags of a buffer.
IframePositions(buf) == {i \in TagPositions(buf) : buf[i].name = "iframe"}

\* C7: every iframe opening tag in the output is closed at once, by the
\* </iframe> written right after it or by its own "/>"; </iframe> is written
\* nowhere else, and an iframe end-tag token writes nothing.
C7_IframeHasNoChildren ==
    /\ \A i \in IframePositions(buffer) :
          buffer[i].k = "open" =>
              i < Len(buffer) /\ buffer[i + 1] = CloseChunk("iframe")
    /\ \A i \in 1..Len(buffer) :
          buffer[i] = CloseChunk("iframe") =>
              i > 1 /\ buffer[i - 1].k = "open" /\ buffer[i - 1].name = "iframe"
    /\ (last.Type = "EndTag" /\ last.Data = "iframe") => buffer = before

\* C7 witness: an iframe start tag and a self-closing iframe were kept, and
\* an iframe end tag has just been read.
C7_Witness ==
    /\ \E i \in IframePositions(buffer) : buffer[i].k = "open"
    /\ \E i \in IframePositions(buffer) : buffer[i].k = "self"
    /\ last.Type = "EndTag" /\ last.Data = "iframe"

\* The iframe at position i stands between the wrapper's opening and closing.
Wrapped(buf, i) ==
    /\ i > 1 /\ buf[i - 1] = WrapperOpen
    /\ IF buf[i].k = "open"
       THEN /\ i + 2 <= Len(buf)
            /\ buf[i + 1] = CloseChunk("iframe")
            /\ buf[i + 2] = WrapperClose
       ELSE /\ i + 1 <= Len(buf)
            /\ buf[i + 1] = WrapperClose

\* The src the tag is emitted with is on a video-embed domain.
EmittedWithVideoSrc(c) ==
    \E j \in 1..Len(c.attrs) :
        /\ c.attrs[j].Key = "src"
        /\ \A h \in 1..(j - 1) : c.attrs[h].Key # "src"
        /\ URLDomain(ValueOf(c.attrs[j])) \in videoWhitelist

\* C8 (as claimed): an emitted iframe is wrapped in the video container
\* exactly when the src it is emitted with is on a video-embed domain, and a
\* wrapper opening is followed by an iframe and the wrapper closing.
C8_WrappedIffVideo ==
    /\ \A i \in IframePositions(buffer) :
          Wrapped(buffer, i) <=> EmittedWithVideoSrc(buffer[i])
    /\ \A i \in 1..Len(buffer) :
          buffer[i] = WrapperOpen =>
              i + 1 \in IframePositions(buffer) /\ Wrapped(buffer, i + 1)

\* The source-derived attributes of an output tag: all but the injected ones
\* at its end.
SourceAttrs(c) ==
    SubSeq(c.attrs, 1, Len(c.attrs) - Len(InjectedNames(c.name)))

\* Some source attribute of the token survives filtering under a required
\* name of its tag.
RequiredSurvives(token) ==
    \E a \in Range(sanitizeSourceAttributes(baseURL, token.Data, token.Attr)) :
        a.Key \in requiredAttributes[token.Data]

\* C9: every a, iframe, img and source tag in the output carries a
\* source-derived attribute of a required name (injected ones do not count),
\* and a start-tag or self-closing token of these tags whose required
\* attribute did not survive writes nothing.
C9_RequiredAttributes ==
    /\ \A i \in TagPositions(buffer) :
          buffer[i].name \in DOMAIN requiredAttributes =>
              \E a \in Range(SourceAttrs(buffer[i])) :
                  a.Key \in requiredAttributes[buffer[i].name]
    /\ (/\ last.Type \in {"StartTag", "SelfClosingTag"}
        /\ last.Data \in DOMAIN requiredAttributes
        /\ ~RequiredSurvives(last)) => buffer = before

\* C9 witness: an img with a surviving src is in the output and a token whose
\* required attribute was filtered out has just been read.
C9_Witness ==
    /\ \E i \in TagPositions(buffer) : buffer[i].name = "img"
    /\ last.Type \in {"StartTag", "SelfClosingTag"}
    /\ last.Data \in DOMAIN requiredAttributes
    /\ last.Attr # <<>>
    /\ ~RequiredSurvives(last)

\* s is t with some elements left out, the order kept.
RECURSIVE IsSubsequence(_, _)
IsSubsequence(s, t) ==
    IF s = <<>> THEN TRUE
    ELSE IF t = <<>> THEN FALSE
    ELSE IF Head(s) = Head(t) THEN IsSubsequence(Tail(s), Tail(t))
    ELSE IsSubsequence(s, Tail(t))

\* The fixed attributes the defensive table gives a tag, as written.
InjectedText(tagName) ==
    CASE tagName = "a" ->
           <<"rel", "=", "\"", "noopener", " ", "noreferrer", "\"", " ",
             "target", "=", "\"", "_blank", "\"", " ",
             "referrerpolicy", "=", "\"", "no-referrer", "\"">>
      [] tagName \in {"video", "audio"} -> <<"controls">>
      [] tagName = "iframe" ->
           <<"sandbox", "=", "\"", "allow-scripts", " ", "allow-same-origin",
             " ", "allow-popups", "\"", " ", "loading", "=", "\"", "lazy", "\"">>
      [] tagName = "img" -> <<"loading", "=", "\"", "lazy", "\"">>

\* C10: every a, video, audio, iframe and img tag in the output ends with the
\* complete fixed attributes of its tag, no attribute before them bears an
\* injected name, and the attributes before them are attributes of the token
\* in the token's order.
C10_InjectedAttributesLast ==
    /\ \A i \in TagPositions(buffer) :
          buffer[i].name \in {"a", "video", "audio", "iframe", "img"} =>
              LET c == buffer[i]
                  n == Len(InjectedNames(c.name))
              IN /\ Len(c.attrs) >= n
                 /\ RenderAttrs(SubSeq(c.attrs, Len(c.attrs) - n + 1, Len(c.attrs)))
                       = InjectedText(c.name)
                 /\ \A a \in Range(SourceAttrs(c)) :
                       a.Key \notin Range(InjectedNames(c.name))
    /\ \A i \in 1..Len(Written) :
          (Written[i].k \in {"open", "self"} /\ Written[i].name = last.Data) =>
              IsSubsequence(AttrNames(SourceAttrs(Written[i])),
                            AttrNames(last.Attr))

\* C10 witness: a token carrying source attributes named like injected ones
\* (target on a, loading on img) was emitted with two source attributes.
C10_Witness ==
    /\ last.Data \in {"a", "img"}
    /\ \E j \in 1..Len(last.Attr) : last.Attr[j].Key \in {"target", "loading"}
    /\ \E i \in 1..Len(Written) : Len(SourceAttrs(Written[i])) = 2


(* ----------------------- calls side by side ---------------------------- *)

\* Length of the token list of each of the calls that run side by side.
MaxCallTokens == 2

\* The variables of the single call, while another part of the program runs.
sanitizeVars ==
    <<baseURL, buffer, tagStack, parentTag, blacklistedTagDepth, pc, err,
      result, consumed, last, before, openBlocked>>

SanitizeIdle ==
    /\ baseURL = <<>>
    /\ buffer = <<>>
    /\ tagStack = <<>>
    /\ parentTag = ""
    /\ blacklistedTagDepth = 0
    /\ pc = "idle"
    /\ err = "none"
    /\ result = <<>>
    /\ consumed = 0
    /\ last = NoToken
    /\ before = <<>>
    /\ openBlocked = <<>>

\* Two goroutines call Sanitize.
Callers == {1, 2}

\* The tokens of their inputs: each touches one piece of the per-call state.
CallTokens ==
    {TagToken("StartTag", "iframe", <<Attribute("src", VideoURL)>>),
     TagToken("StartTag", "script", <<>>),
     TagToken("StartTag", "p", <<>>),
     TagToken("EndTag", "p", <<>>),
     TextToken(<<"hi">>)}

\* The token lists of at most n tokens.
RECURSIVE CallInputs(_)
CallInputs(n) ==
    IF n = 0 THEN {<<>>}
    ELSE LET shorter == CallInputs(n - 1)
         IN shorter \cup {Append(i, t) : i \in shorter, t \in CallTokens}

\* The state every call reads: another call's variables instead of its own,
\* as if buffer, tagStack, parentTag and the counter were package variables.
CallState_shared(c) == calls[1].st

\* The state a call's turn of the loop reads and writes: its own locals.
CallState(c) == calls[c].st

CallInit ==
    /\ SanitizeIdle
    /\ srcset = Idle
    /\ auth = Idle
    /\ calls \in [Callers ->
                    [base : {SiteBase}, input : CallInputs(MaxCallTokens),
                     pos : {0}, st : {InitialState}, done : {FALSE},
                     result : {<<>>}]]

\* One turn of the loop of call c.
CallStep(c) ==
    /\ ~calls[c].done
    /\ calls[c].pos < Len(calls[c].input)
    /\ calls' = [calls EXCEPT
                   ![c].st = ProcessToken(calls[c].base, CallState(c),
                                          calls[c].input[calls[c].pos + 1]),
                   ![c].pos = @ + 1]
    /\ UNCHANGED <<sanitizeVars, srcset, auth>>

\* Call c reads io.EOF and returns its buffer.
CallReturn(c) ==
    /\ ~calls[c].done
    /\ calls[c].pos = Len(calls[c].input)
    /\ calls' = [calls EXCEPT ![c].done = TRUE,
                              ![c].result = CallState(c).buffer]
    /\ UNCHANGED <<sanitizeVars, srcset, auth>>

CallNext ==
    \E c \in Callers :
        \/ CallStep(c)
        \/ CallReturn(c)

CallSpec == CallInit /\ [][CallNext]_vars

\* The per-call state after a token list, run alone.
RECURSIVE StateAfter(_, _, _)
StateAfter(base, st, tokens) ==
    IF tokens = <<>> THEN st
    ELSE StateAfter(base, ProcessToken(base, st, Head(tokens)), Tail(tokens))

\* C11: however the turns of two calls interleave, each call's state is the
\* state it has after the same tokens when run alone, and each returns what
\* Sanitize returns for its input alone.
C11_CallsIndependent ==
    \A c \in Callers :
        /\ calls[c].st = StateAfter(calls[c].base, InitialState,
                                    SubSeq(calls[c].input, 1, calls[c].pos))
        /\ calls[c].done =>
              calls[c].result = Sanitize(calls[c].base, calls[c].input)

\* C11 witness: both calls have returned different non-empty outputs, and the
\* second one was inside an iframe while the first wrote text.
C11_Witness ==
    /\ calls[1].done /\ calls[2].done
    /\ calls[1].result # <<>> /\ calls[2].result # <<>>
    /\ calls[1].result # calls[2].result
    /\ calls[2].st.parentTag = "iframe"
    /\ calls[1].st.parentTag # "iframe"


(* ------------------------ the depth counter ---------------------------- *)

\* C12: the blocked-subtree depth counter is never negative.
C12_DepthNeverNegative == blacklistedTagDepth >= 0

(* ------------------------ the iframe text rule ------------------------- *)

\* C13: a text token that directly follows an end-tag or a self-closing
\* token, while the depth counter suppresses nothing, is written
\* HTML-escaped: only text directly inside an iframe is dropped.
C13_TextAfterIframeEmitted ==
    [][(/\ pc = "loop"
        /\ last'.Type = "Text"
        /\ last.Type \in {"EndTag", "SelfClosingTag"}
        /\ blacklistedTagDepth <= 0)
       => buffer' = Append(buffer, TextOutput(last'))]_vars


(* ----------------------------- close tags ------------------------------ *)

\* An "open" chunk of the name stands in the buffer before position i.
OpenedBefore(buf, i, tagName) ==
    \E j \in 1..(i - 1) : buf[j].k = "open" /\ buf[j].name = tagName

\* The close tag at position i answers an end-tag token: its name is an
\* allowed tag other than iframe, on the open-tag stack, opened before it.
ClosesKeptTag(buf, i) ==
    /\ isValidTag(buf[i].name)
    /\ buf[i].name # "iframe"
    /\ inList(buf[i].name, tagStack)
    /\ OpenedBefore(buf, i, buf[i].name)

\* The close tag at position i is part of what a kept iframe start tag
\* writes: "</iframe>" right after the opening tag, "</div>" after that.
ClosesIframeLiteral(buf, i) ==
    /\ i > 1
    /\ \/ /\ buf[i] = CloseChunk("iframe")
          /\ buf[i - 1].k = "open" /\ buf[i - 1].name = "iframe"
       \/ /\ buf[i] = WrapperClose
          /\ buf[i - 1] = CloseChunk("iframe")

\* C14 as stated: every close tag in the output names an allowed tag other
\* than iframe that is on the open-tag stack and was opened before it.
C14_CloseOnlyForKeptTag ==
    \A i \in 1..Len(buffer) :
        buffer[i].k = "close" => ClosesKeptTag(buffer, i)

\* C14 amended: every close tag in the output either answers an end-tag token
\* for an allowed non-iframe tag that is on the open-tag stack and was opened
\* before it, or belongs to the text a kept iframe start tag writes; an
\* end-tag token writes at most the close tag of its own name, and a text or
\* self-closing token writes no close tag.
C14_CloseOnlyForKeptTagOrIframe ==
    /\ \A i \in 1..Len(buffer) :
          buffer[i].k = "close" =>
              ClosesKeptTag(buffer, i) \/ ClosesIframeLiteral(buffer, i)
    /\ last.Type = "EndTag" =>
          \/ Written = <<>>
          \/ /\ Written = <<CloseChunk(last.Data)>>
             /\ ClosesKeptTag(buffer, Len(buffer))
    /\ last.Type \in {"Text", "SelfClosingTag"} =>
          \A i \in 1..Len(Written) : Written[i].k # "close"
    /\ last.Type = "StartTag" =>
          \A i \in 1..Len(Written) :
              Written[i].k = "close" => last.Data = "iframe"

\* C14 witness: an iframe was kept and auto-closed, and an end-tag token has
\* just closed a kept tag of its own name.
C14_Witness ==
    /\ last.Type = "EndTag"
    /\ Written = <<CloseChunk(last.Data)>>
    /\ OpenedBefore(buffer, Len(buffer), last.Data)
    /\ \E i \in 1..Len(before) : before[i] = CloseChunk("iframe")


(* ------------------------- the open-tag stack -------------------------- *)

\* How many chunks of kind k and the given name stand in buf[1..i].
CountUpTo(buf, i, k, tagName) ==
    Cardinality({j \in 1..i : buf[j].k = k /\ buf[j].name = tagName})

\* C15: at every point of the output and for every tag name, no more close
\* tags of the name have been written than opening tags of the name, so each
\* kept start tag authorises at most one close tag.
C15_ClosesNeverExceedOpens ==
    \A i \in 1..Len(buffer) :
        buffer[i].k = "close" =>
            CountUpTo(buffer, i, "close", buffer[i].name)
                <= CountUpTo(buffer, i, "open", buffer[i].name)


(* --------------------------- dropped tags ------------------------------ *)

\* The start-tag token is skipped without a trace: its name is neither
\* allowed nor blocked, or it is allowed and its required attribute did not
\* survive.
IsSkippedStartTag(base, token) ==
    /\ token.Type = "StartTag"
    /\ IF isValidTag(token.Data)
       THEN ~hasRequiredAttributes(
                token.Data,
                AttrNames(sanitizeAttributes(base, token.Data, token.Attr)))
       ELSE ~isBlockedTag(token.Data)

\* Every token the tokenizer may hand over next.
AllTokens ==
    TextTokens \cup StartTagTokens \cup EndTagTokens \cup SelfClosingTagTokens

\* C16: a skipped start tag is transparent: whatever single token follows,
\* the output is the same as if the skipped token had not been in the input.
C16_DroppedTagTransparent ==
    [][(pc = "loop" /\ IsSkippedStartTag(baseURL, last'))
       => \A t \in AllTokens :
             SanitizeFrom(baseURL, State', <<t>>)
                 = SanitizeFrom(baseURL, State, <<t>>)]_vars


(* ---------------------- what a start tag changes ----------------------- *)

\* The start-tag token is kept: allowed, with its required attribute.
IsKeptStartTag(base, token) ==
    /\ token.Type = "StartTag"
    /\ isValidTag(token.Data)
    /\ hasRequiredAttributes(
           token.Data,
           AttrNames(sanitizeAttributes(base, token.Data, token.Attr)))

\* The start-tag token opens a blocked subtree.
IsBlockedStartTag(token) ==
    /\ token.Type = "StartTag"
    /\ ~isValidTag(token.Data)
    /\ isBlockedTag(token.Data)

\* C17: a skipped start tag leaves buffer, open-tag stack and depth counter
\* unchanged; the counter changes only on a blocked start tag, by exactly +1;
\* the stack changes only on a kept non-iframe start tag, by a push of its
\* own name.
C17_StartTagFrame ==
    [][(pc = "loop" /\ last'.Type = "StartTag")
       => /\ IsSkippedStartTag(baseURL, last') =>
                /\ buffer' = buffer
                /\ tagStack' = tagStack
                /\ blacklistedTagDepth' = blacklistedTagDepth
          /\ blacklistedTagDepth' =
                IF IsBlockedStartTag(last') THEN blacklistedTagDepth + 1
                ELSE blacklistedTagDepth
          /\ tagStack' =
                IF IsKeptStartTag(baseURL, last') /\ last'.Data # "iframe"
                THEN Append(tagStack, last'.Data)
                ELSE tagStack
          /\ IsBlockedStartTag(last') => buffer' = buffer]_vars

\* C17 witness: a tag was pushed, a blocked subtree was opened, and the last
\* token was a start tag skipped without a trace.
C17_Witness ==
    /\ IsSkippedStartTag(baseURL, last)
    /\ buffer = before
    /\ tagStack # <<>>
    /\ blacklistedTagDepth > 0

(* -------------------- what a self-closing tag changes ------------------ *)

\* What the start-tag case does with the same name and attributes.
AsStartTag(token) == [token EXCEPT !.Type = "StartTag"]

\* C18: a self-closing token writes its tag exactly when a start tag of the
\* same name and attributes would be kept, with the same attributes; it
\* changes neither the open-tag stack nor the depth counter; and an end tag
\* of the same name right after it writes nothing unless an opening tag of
\* the name was written earlier.
C18_SelfClosingFrame ==
    [][/\ (pc = "loop" /\ last'.Type = "SelfClosingTag") =>
             /\ tagStack' = tagStack
             /\ blacklistedTagDepth' = blacklistedTagDepth
             /\ LET asStart == StartTagTokenStep(baseURL, State,
                                                 AsStartTag(last'))
                    opened  == SubSeq(asStart.buffer, Len(buffer) + 1,
                                      Len(asStart.buffer))
                IN IF IsKeptStartTag(baseURL, AsStartTag(last'))
                   THEN \E i \in 1..Len(opened) :
                           /\ opened[i].k = "open"
                           /\ opened[i].name = last'.Data
                           /\ buffer' = Append(buffer,
                                               SelfChunk(last'.Data,
                                                         opened[i].attrs))
                   ELSE buffer' = buffer
       /\ (/\ pc = "loop"
           /\ last.Type = "SelfClosingTag"
           /\ last'.Type = "EndTag"
           /\ last'.Data = last.Data
           /\ ~OpenedBefore(buffer, Len(buffer) + 1, last.Data))
          => buffer' = buffer]_vars

\* C18 witness: a self-closing tag was written, no opening tag of its name
\* was, and the end tag of its name that followed wrote nothing.
C18_Witness ==
    /\ last.Type = "EndTag"
    /\ Written = <<>>
    /\ buffer # <<>>
    /\ buffer[Len(buffer)].k = "self"
    /\ buffer[Len(buffer)].name = last.Data
    /\ ~OpenedBefore(buffer, Len(buffer) + 1, last.Data)
    /\ tagStack = <<>>


(* --------------------------- srcset rewriting -------------------------- *)

\* Number of candidates in a srcset value.
MaxCandidates == 3

\* The URL parts of the candidates: relative, unparsable, data:.
CandidateURLs == {<<"/a.jpg">>, <<"%zz">>, ImageData}

\* What follows the first space of a candidate: nothing, a density, a word,
\* a density after a second space, two descriptors.
CandidateDescriptors ==
    {<<>>, <<"1", "x">>, <<"bad">>, <<" ", "2", "x">>,
     <<"1", "x", " ", "2", "w">>}

Candidates == [url : CandidateURLs, descriptor : CandidateDescriptors]

\* The non-empty candidate lists of at most n candidates.
RECURSIVE CandidateLists(_)
CandidateLists(n) ==
    IF n = 1 THEN {<<c>> : c \in Candidates}
    ELSE LET shorter == CandidateLists(n - 1)
         IN shorter \cup {Append(l, c) : l \in shorter, c \in Candidates}

\* The candidate as it stands in the attribute value.
RawCandidate(c) ==
    IF c.descriptor = <<>> THEN c.url
    ELSE c.url \o <<" ">> \o c.descriptor

\* The attribute value: the candidates separated by a comma and a space.
RECURSIVE RawCandidates(_)
RawCandidates(l) ==
    IF l = <<>> THEN <<>>
    ELSE <<RawCandidate(Head(l))>> \o RawCandidates(Tail(l))

RawSrcset(l) == Join(RawCandidates(l), <<", ">>)

SrcsetInit ==
    /\ SanitizeIdle
    /\ calls = Idle
    /\ auth = Idle
    /\ srcset \in [pc : {"call"}, baseURL : {<<>>, SiteBase},
                   candidates : CandidateLists(MaxCandidates),
                   value : {<<>>}]

\* sanitizeSrcsetAttr(baseURL, value) runs and returns.
SrcsetRewrite ==
    /\ srcset.pc = "call"
    /\ srcset' = [srcset EXCEPT
                    !.pc = "return",
                    !.value = sanitizeSrcsetAttr(srcset.baseURL,
                                                 RawSrcset(srcset.candidates))]
    /\ UNCHANGED <<sanitizeVars, calls, auth>>

SrcsetNext == SrcsetRewrite

SrcsetSpec == SrcsetInit /\ [][SrcsetNext]_vars

\* The candidate's URL part resolves, or is a data: URL and needs not to.
CandidateSurvives(base, c) ==
    HasPrefix(c.url, <<"data", ":">>) \/ AbsoluteUrl(c.url, base) # <<>>

\* A number followed by w or x.
IsNumberWithUnit(descriptor) ==
    /\ Len(descriptor) = 2
    /\ descriptor[1] \in FloatAtoms
    /\ descriptor[2] \in {"w", "x"}

\* What the claim expects of one surviving candidate.
RewrittenCandidate(base, c) ==
    (IF HasPrefix(c.url, <<"data", ":">>) THEN c.url
     ELSE AbsoluteUrl(c.url, base))
    \o (IF IsNumberWithUnit(c.descriptor) THEN <<" ">> \o c.descriptor
        ELSE <<>>)

\* What the claim expects of the candidate list, in input order.
RECURSIVE RewrittenCandidates(_, _)
RewrittenCandidates(base, l) ==
    IF l = <<>> THEN <<>>
    ELSE (IF CandidateSurvives(base, Head(l))
          THEN <<RewrittenCandidate(base, Head(l))>>
          ELSE <<>>)
         \o RewrittenCandidates(base, Tail(l))

\* C19: the rewritten srcset holds, in input order and joined by ", ",
\* every candidate whose URL is a data: URL or resolves against baseURL, as
\* its URL (resolved unless data:) followed by one space and the descriptor
\* when the descriptor is a number followed by w or x, and by nothing
\* otherwise; no other candidate is dropped.
C19_SrcsetRewriting ==
    srcset.pc = "return" =>
        srcset.value = Join(RewrittenCandidates(srcset.baseURL,
                                                srcset.candidates),
                            <<", ">>)

\* C19 witness: of three candidates, one was dropped for its URL, one lost a
\* descriptor that is no number with a unit, one kept a valid descriptor.
C19_Witness ==
    /\ srcset.pc = "return"
    /\ srcset.value # <<>>
    /\ Len(srcset.candidates) = 3
    /\ ~CandidateSurvives(srcset.baseURL, srcset.candidates[1])
    /\ CandidateSurvives(srcset.baseURL, srcset.candidates[2])
    /\ srcset.candidates[2].descriptor = <<"bad">>
    /\ CandidateSurvives(srcset.baseURL, srcset.candidates[3])
    /\ IsNumberWithUnit(srcset.candidates[3].descriptor)
    /\ ~HasPrefix(srcset.candidates[3].url, <<"data", ":">>)


(* --------------------------- auth middleware --------------------------- *)

StatusUnauthorized == 401
StatusOK == 200

\* The Middleware values the server is started with.
Middlewares ==
    [Username : {"admin"}, Password : {"secret"},
     BasePath : {<<>>, <<"/yarr">>}, Public : {<<"/static">>}]

\* The requests: c.Req.URL.Path, c.Req.Method, the auth cookie, the form.
Requests ==
    [Path : {<<"/">>, <<"/static", "/app.js">>, <<"/api">>,
             <<"/yarr", "/">>, <<"/yarr", "/static", "/app.js">>,
             <<"/yarr", "/api">>},
     Method : {"GET", "POST", "PUT"},
     Cookie : {"none", "valid"},
     username : {"admin", "eve"},
     password : {"secret", "guess"}]

\* IsAuthenticated(c.Req, m.Username, m.Password): the request carries the
\* cookie that Authenticate sets for these credentials.
IsAuthenticated(req, username, password) == req.Cookie = "valid"

\* StringsEqual: equality of the two strings.
StringsEqual(p1, p2) == p1 = p2

\* Every path under BasePath counted as public.
IsPublicPath_basePathOnly(m, path) == HasPrefix(path, m.BasePath)

\* strings.HasPrefix(c.Req.URL.Path, m.BasePath+m.Public)
IsPublicPath(m, path) == HasPrefix(path, m.BasePath \o m.Public)

\* rootUrl := m.BasePath + "/"
rootUrl(m) == m.BasePath \o <<"/">>

\* What has been done to the response so far.
NoResponse ==
    [next |-> FALSE, status |-> 0, page |-> "", error |-> "",
     cookie |-> FALSE, location |-> <<>>]

AuthInit ==
    /\ SanitizeIdle
    /\ calls = Idle
    /\ srcset = Idle
    /\ auth \in [pc : {"handler"}, m : Middlewares, req : Requests,
                 out : {NoResponse}]

\* The handler returns with the given response.
Respond(out) ==
    /\ auth' = [auth EXCEPT !.pc = "return", !.out = out]
    /\ UNCHANGED <<sanitizeVars, calls, srcset>>

\* The request is for a public path: c.Next().
PassPublic ==
    /\ auth.pc = "handler"
    /\ IsPublicPath(auth.m, auth.req.Path)
    /\ Respond([NoResponse EXCEPT !.next = TRUE])

\* The request is authenticated: c.Next().
PassAuthenticated ==
    /\ auth.pc = "handler"
    /\ ~IsPublicPath(auth.m, auth.req.Path)
    /\ IsAuthenticated(auth.req, auth.m.Username, auth.m.Password)
    /\ Respond([NoResponse EXCEPT !.next = TRUE])

\* Neither, and the path is not the root URL: 401.
Unauthorized ==
    /\ auth.pc = "handler"
    /\ ~IsPublicPath(auth.m, auth.req.Path)
    /\ ~IsAuthenticated(auth.req, auth.m.Username, auth.m.Password)
    /\ auth.req.Path # rootUrl(auth.m)
    /\ Respond([NoResponse EXCEPT !.status = StatusUnauthorized])

\* The credentials of the posted form match the configured ones.
CredentialsMatch(m, req) ==
    /\ StringsEqual(req.username, m.Username)
    /\ StringsEqual(req.password, m.Password)

\* POST to the root URL with matching credentials: cookie and redirect.
LoginSucceeds ==
    /\ auth.pc = "handler"
    /\ ~IsPublicPath(auth.m, auth.req.Path)
    /\ ~IsAuthenticated(auth.req, auth.m.Username, auth.m.Password)
    /\ auth.req.Path = rootUrl(auth.m)
    /\ auth.req.Method = "POST"
    /\ CredentialsMatch(auth.m, auth.req)
    /\ Respond([NoResponse EXCEPT !.cookie = TRUE,
                                  !.location = rootUrl(auth.m)])

\* POST to the root URL with other credentials: the login page, with an error.
LoginFails ==
    /\ auth.pc = "handler"
    /\ ~IsPublicPath(auth.m, auth.req.Path)
    /\ ~IsAuthenticated(auth.req, auth.m.Username, auth.m.Password)
    /\ auth.req.Path = rootUrl(auth.m)
    /\ auth.req.Method = "POST"
    /\ ~CredentialsMatch(auth.m, auth.req)
    /\ Respond([NoResponse EXCEPT !.status = StatusOK,
                                  !.page = "login.html",
                                  !.error = "Invalid username/password"])

\* Any other method on the root URL: the login page.
LoginPage ==
    /\ auth.pc = "handler"
    /\ ~IsPublicPath(auth.m, auth.req.Path)
    /\ ~IsAuthenticated(auth.req, auth.m.Username, auth.m.Password)
    /\ auth.req.Path = rootUrl(auth.m)
    /\ auth.req.Method # "POST"
    /\ Respond([NoResponse EXCEPT !.status = StatusOK,
                                  !.page = "login.html"])

AuthNext ==
    \/ PassPublic
    \/ PassAuthenticated
    \/ Unauthorized
    \/ LoginSucceeds
    \/ LoginFails
    \/ LoginPage

AuthSpec == AuthInit /\ [][AuthNext]_vars

\* The three ways a request that is not passed on can end.
Ends401 ==
    /\ auth.out.status = StatusUnauthorized
    /\ auth.out.page = "" /\ ~auth.out.cookie /\ auth.out.location = <<>>

EndsLoginPage ==
    /\ auth.out.status = StatusOK
    /\ auth.out.page = "login.html"
    /\ ~auth.out.cookie /\ auth.out.location = <<>>

EndsLoggedIn ==
    /\ auth.out.cookie
    /\ auth.out.location = rootUrl(auth.m)
    /\ auth.out.page = "" /\ auth.out.status # StatusUnauthorized

\* The request may be passed on.
MayPass ==
    \/ HasPrefix(auth.req.Path, auth.m.BasePath \o auth.m.Public)
    \/ IsAuthenticated(auth.req, auth.m.Username, auth.m.Password)

\* The handler's answer, the login page being served under the condition
\* given as an argument.
HandlerAnswers(loginPageWhen) ==
    auth.pc = "return" =>
        /\ auth.out.next => MayPass
        /\ ~MayPass =>
              /\ ~auth.out.next
              /\ Ends401 <=> auth.req.Path # rootUrl(auth.m)
              /\ EndsLoginPage <=>
                    auth.req.Path = rootUrl(auth.m) /\ loginPageWhen
              /\ EndsLoggedIn <=>
                    /\ auth.req.Path = rootUrl(auth.m)
                    /\ auth.req.Method = "POST"
                    /\ CredentialsMatch(auth.m, auth.req)
              /\ Ends401 \/ EndsLoginPage \/ EndsLoggedIn

\* C20 as stated: the next handler is called only for a public path or an
\* authenticated request; every other request ends in exactly one of 401
\* (not the root URL), the login page (root URL, GET, or POST with wrong
\* credentials), cookie and redirect (root URL, POST, matching credentials).
C20_HandlerOutcomes ==
    HandlerAnswers(\/ auth.req.Method = "GET"
                   \/ /\ auth.req.Method = "POST"
                      /\ ~CredentialsMatch(auth.m, auth.req))

\* C20 amended: as above, the login page being served on the root URL for
\* every method other than POST, and for POST with wrong credentials.
C20_HandlerOutcomesAnyMethod ==
    HandlerAnswers(\/ auth.req.Method # "POST"
                   \/ ~CredentialsMatch(auth.m, auth.req))

\* C20 witness: an unauthenticated PUT to the root URL under a base path was
\* answered with the login page and not passed on.
C20_Witness ==
    /\ auth.pc = "return"
    /\ ~MayPass
    /\ auth.m.BasePath # <<>>
    /\ auth.req.Method = "PUT"
    /\ EndsLoginPage
    /\ ~auth.out.next

====
